---- MODULE Spec2Model ----
(***************************************************************************)
(* Model of the auto-sos wake word detectors:                              *)
(*   src/wake_word_detector.py       (Porcupine keyword spotter)           *)
(*   src/wake_word_detector_vosk.py  (Vosk continuous recognizer)          *)
(* Both scripts share send_alert / test_whatsapp_service / the shape of    *)
(* main; `variant` selects which script is running.                        *)
(*                                                                         *)
(* Time is counted in ticks, TicksPerSecond ticks to the second, so that   *)
(* time.time() values that are not whole seconds exist and int(...) in     *)
(* send_alert really truncates.  COOLDOWN_SECONDS is in whole seconds.     *)
(* Strings that the code inspects (recognized text, wake words) are        *)
(* sequences of one-character strings.                                     *)
(***************************************************************************)
EXTENDS Integers, Sequences, FiniteSets, TLC

(* ------------------------------ bounds --------------------------------- *)
\* largest clock value (ticks) the model explores
MaxClock == 6
\* clock resolution: ticks per second
TicksPerSecond == 2
\* longest recognized text (characters)
MaxTextLen == 2
\* how many of the latest Sent timestamps the history keeps
MaxSent == 2

(* ------------------------------ inputs --------------------------------- *)
\* config['detection']['cooldownSeconds'] values explored
CooldownChoices == {0, 1, 2}

Alphabet == {"A", "b"}

Texts == UNION {[1..n -> Alphabet] : n \in 0..MaxTextLen}

\* config['detection']['wakeWords'] values explored, as written in
\* config.json: no word, one word, an empty word, two overlapping words in
\* both orders, upper case in the file
WakeWordConfigs ==
    { <<>>,
      << <<"a">> >>,
      << <<>>, <<"b">> >>,
      << <<"A">>, <<"a", "b">> >>,
      << <<"A", "b">>, <<"a">> >> }

\* results of porcupine.process: -1 is "no keyword", >= 0 the keyword's index
KeywordIndices == {-1, 0, 1}

\* what the alert service can answer to POST /alert
StatusCodes == {200, 201, 500}
Bodies == {"ok", "upstream error"}
NoBody == "<not logged>"

PostResults ==
    [type : {"response"}, status_code : StatusCodes, text : Bodies]
    \cup {[type |-> "ConnectionError", status_code |-> 0, text |-> ""],
          [type |-> "Exception", status_code |-> 0, text |-> ""]}

NoResponse == [type |-> "none", status_code |-> 0, text |-> ""]

\* what GET /health can give: a JSON body with whatsappConnected true, false
\* or absent, a body that is not JSON, a refused connection, a timeout
HealthResults ==
    {"connected", "not_connected", "field_absent", "bad_json",
     "ConnectionError", "Timeout"}

\* what stream.read and the engine call on the frame can do: give a frame,
\* give a frame after an input overflow, raise from stream.read (the device
\* went away), raise from the engine call or from parsing its result
ReadResults == {"ok", "overflow", "read_error", "engine_error"}

\* what OpenAudio can meet: pyaudio.PyAudio() raises, pa.open raises, the
\* device-info lookup after pa.open raises, or all three succeed
OpenResults == {"PyAudioError", "OpenError", "DeviceInfoError", "ok"}

\* the two detection workers of the concurrent deployment
Workers == {1, 2}

VARIABLES
    variant,              \* "porcupine" | "vosk": which script runs
    COOLDOWN_SECONDS,     \* module constant read from config.json
    WAKE_WORDS,           \* vosk only: lowercased wake word list
    clock,                \* what time.time() returns now (ticks)
    last_detection_time,  \* module global (ticks)
    current_time,         \* send_alert's local (ticks): the clock read of the
                          \* latest call, kept until the next frame is read
    service_ready,        \* main's local
    pc,                   \* position of main
    keyword_index,        \* porcupine: main's local, porcupine.process result
    frame,                \* vosk: what the recognizer said about the frame
                          \* just read, until send_alert is entered
    detected_words,       \* vosk: main's local list of matching wake words
    outcome,              \* what the last send_alert call logged and returned
    interrupted,          \* a KeyboardInterrupt was raised in the loop
    alert_calls,          \* history: send_alert calls made for this frame
    last_before,          \* history: last_detection_time when the call began
    response,             \* history: what requests.post gave the latest call
    sent_log,             \* history: current_time of the latest Sent outcomes
    health_log,           \* what test_whatsapp_service met and logged, until
                          \* the engine is initialized
    read_result,          \* history: what the latest stream.read met, until
                          \* its frame is processed
    acquire_log,          \* history: resources acquired, in order
    release_log,          \* history: resources released, in order
    fault,                \* why main left its normal course ("none" if not)
    exit_status,          \* the process's exit status, -1 while it runs
    listened,             \* history: the loop was entered
    interrupted_at,       \* history: pc at which the KeyboardInterrupt hit
    wpc,                  \* concurrent deployment: each worker's position
    wtime                 \* concurrent deployment: each worker's current_time

shutdown == <<acquire_log, release_log, fault, exit_status, listened,
              interrupted_at>>

workers == <<wpc, wtime>>

vars == <<variant, COOLDOWN_SECONDS, WAKE_WORDS, clock, last_detection_time,
          current_time, service_ready, pc, keyword_index, frame,
          detected_words, outcome, interrupted, alert_calls, last_before,
          response, sent_log, health_log, read_result, shutdown, workers>>

(* ----------------------------- strings --------------------------------- *)
lowerChar(c) == CASE c = "A" -> "a" [] c = "B" -> "b" [] OTHER -> c

\* str.lower()
lower(s) == [i \in 1..Len(s) |-> lowerChar(s[i])]

\* Python's `word in text` on strings
StrIn(word, t) ==
    \E i \in 0..(Len(t) - Len(word)) : SubSeq(t, i + 1, i + Len(word)) = word

\* [word.lower() for word in config['detection'].get('wakeWords', ...)]
LoadWakeWords(cfg) == [i \in 1..Len(cfg) |-> lower(cfg[i])]

(* --------------------------- send_alert -------------------------------- *)
\* int(x) for x a number of ticks: whole seconds, truncated towards zero
IntSeconds(x) ==
    IF x >= 0 THEN x \div TicksPerSecond ELSE -((-x) \div TicksPerSecond)

\* variants of the cooldown test that a slip in the code would give
CooldownActiveInclusive(now, last) ==
    now - last <= COOLDOWN_SECONDS * TicksPerSecond

CooldownActiveOrNotReady(now, last) ==
    ~service_ready \/ now - last < COOLDOWN_SECONDS * TicksPerSecond

CooldownActiveAbsolute(now, last) ==
    (IF now >= last THEN now - last ELSE last - now)
        < COOLDOWN_SECONDS * TicksPerSecond

CooldownActiveNever(now, last) == FALSE

\* `current_time - last_detection_time < COOLDOWN_SECONDS`
CooldownActive(now, last) == now - last < COOLDOWN_SECONDS * TicksPerSecond

\* `elapsed = int(current_time - last_detection_time)`
Elapsed(now, last) == IntSeconds(now - last)

NoOutcome ==
    [kind |-> "None", ret |-> FALSE, elapsed |-> 0, code |-> 0, body |-> NoBody]

\* log "Cooldown active ({elapsed}s / {COOLDOWN_SECONDS}s), skipping alert"
\* and return False
SkipOutcome(now, last) ==
    [kind |-> "SkippedCooldown", ret |-> FALSE, elapsed |-> Elapsed(now, last),
     code |-> 0, body |-> NoBody]

\* the body of the `else` branch: the Porcupine script logs response.text,
\* the Vosk script logs the status code only
LoggedBody(res) == IF variant = "porcupine" THEN res.text ELSE NoBody

\* the try block after requests.post and its two except clauses:
\* what is logged and returned for each transport result
PostOutcome(res) ==
    CASE res.type = "response" /\ res.status_code = 200 ->
           [kind |-> "Sent", ret |-> TRUE, elapsed |-> 0, code |-> 200,
            body |-> NoBody]
      [] res.type = "response" /\ res.status_code # 200 ->
           [kind |-> "FailedHttpStatus", ret |-> FALSE, elapsed |-> 0,
            code |-> res.status_code, body |-> LoggedBody(res)]
      [] res.type = "ConnectionError" ->
           [kind |-> "FailedConnection", ret |-> FALSE, elapsed |-> 0,
            code |-> 0, body |-> NoBody]
      [] OTHER ->
           [kind |-> "FailedOther", ret |-> FALSE, elapsed |-> 0, code |-> 0,
            body |-> NoBody]

\* variants of the timestamp update: never stored (the assignment binds a
\* local), stored before the status is looked at
RecordedTimeNever(res, cur, last) == last

RecordedTimeAlways(res, cur, last) == cur

\* variant: time.time() is read again for the assignment, after requests.post
RecordedTimeAtCompletion(res, cur, last) ==
    IF res.type = "response" /\ res.status_code = 200 THEN clock ELSE last

\* `last_detection_time = current_time` in the status_code == 200 branch only
RecordedTime(res, cur, last) ==
    IF res.type = "response" /\ res.status_code = 200 THEN cur ELSE last

\* variant: only ConnectionError is caught, another exception unwinds main
AfterPostUncaught(res) == IF res.type = "Exception" THEN "cleanup" ELSE "loop"

\* where main continues after send_alert's try block: every branch and both
\* except clauses return, so main is back in its while loop
AfterPost(res) == "loop"

\* history: the latest MaxSent timestamps of Sent outcomes
Remember(log, t) ==
    LET l == Append(log, t)
    IN IF Len(l) > MaxSent THEN Tail(l) ELSE l

(* ------------------------- frame decisions ----------------------------- *)
\* variant: `if keyword_index > 0`
WakeWordDetectedPositive(index) == index > 0

\* Porcupine: `if keyword_index >= 0`
WakeWordDetected(index) == index >= 0

\* variant: the text is looked at whether or not the utterance ended
FinalizedAlways(f) == TRUE

\* Vosk: `if recognizer.AcceptWaveform(data)`
Finalized(f) == f.accept

\* variant: the `.lower()` is missing
ResultTextRaw(f) == IF f.has_text THEN f.text ELSE <<>>

\* Vosk: `text = result.get('text', '').lower()`
ResultText(f) == lower(IF f.has_text THEN f.text ELSE <<>>)

\* Vosk: `[word for word in WAKE_WORDS if word in text]`
DetectedWords(text) == SelectSeq(WAKE_WORDS, LAMBDA w : StrIn(w, text))

NoFrame == [accept |-> FALSE, has_text |-> FALSE, text |-> <<>>]

\* what one recognizer call can report: `accept` is AcceptWaveform's answer;
\* `text` is the final Result text when accept, else the interim (partial)
\* text the engine holds; has_text = FALSE is a Result without a 'text' key
Frames ==
    {[accept |-> a, has_text |-> TRUE, text |-> t] : a \in BOOLEAN, t \in Texts}
    \cup {[NoFrame EXCEPT !.accept = TRUE]}

(* ------------------------ health check --------------------------------- *)
\* mutant of test_whatsapp_service: the exception handlers return True
test_whatsapp_serviceOptimistic(h) == h \notin {"not_connected", "field_absent"}

\* test_whatsapp_service(): True only when the body parses and
\* data.get('whatsappConnected') is truthy
test_whatsapp_service(h) == h = "connected"

\* the line test_whatsapp_service logs first, by the branch taken
HealthLine(h) ==
    CASE h = "connected" -> "connected and ready"
      [] h \in {"not_connected", "field_absent"} -> "running but not connected"
      [] h = "ConnectionError" -> "not running"
      [] OTHER -> "could not check"

\* what GET /health gave and the line logged for it
HealthLog(h) == [result |-> h, line |-> HealthLine(h)]

NoHealthLog == [result |-> "none", line |-> "none"]

(* ---------------------------- resources -------------------------------- *)
\* what InitEngine acquires that main must release by a call: the Porcupine
\* handle (porcupine.delete()); the Vosk model and recognizer are plain
\* objects that main never releases by a call
EngineResources(v) == IF v = "porcupine" THEN <<"engine">> ELSE <<>>

\* the except block of the audio opening: porcupine.delete(), pa.terminate()
\* (Vosk: pa.terminate()); the stream is not closed there
OpenFailureReleases(v) ==
    IF v = "porcupine" THEN <<"engine", "pa">> ELSE <<"pa">>

\* the finally block: stop_stream() and close(), pa.terminate(),
\* porcupine.delete() (Vosk: no engine call)
CleanupSteps(v) ==
    IF v = "porcupine" THEN <<"stream", "pa", "engine">>
                       ELSE <<"stream", "pa">>

\* the releases the finally block completes when its step fail_at raises
\* (fail_at = 0: no step raises)
CleanupReleases(v, fail_at) ==
    IF fail_at = 0 THEN CleanupSteps(v)
                   ELSE SubSeq(CleanupSteps(v), 1, fail_at - 1)

\* mutant of ReadRaises: stream.read called with exception_on_overflow=True
ReadRaisesOnOverflow(r) == r \in {"read_error", "overflow"}

\* whether stream.read(..., exception_on_overflow=False) raises
ReadRaises(r) == r = "read_error"

(* ------------------------------ Init ----------------------------------- *)
Init ==
    /\ variant \in {"porcupine", "vosk"}
    /\ COOLDOWN_SECONDS \in CooldownChoices
    /\ WAKE_WORDS \in IF variant = "vosk"
                      THEN {LoadWakeWords(c) : c \in WakeWordConfigs}
                      ELSE {<<>>}
    /\ clock = 0
    /\ last_detection_time = 0
    /\ current_time = 0
    /\ service_ready = FALSE
    /\ pc = "health"
    /\ keyword_index = -1
    /\ frame = NoFrame
    /\ detected_words = <<>>
    /\ outcome = NoOutcome
    /\ interrupted = FALSE
    /\ alert_calls = 0
    /\ last_before = 0
    /\ response = NoResponse
    /\ sent_log = <<>>
    /\ health_log = NoHealthLog
    /\ read_result = "none"
    /\ acquire_log = <<>>
    /\ release_log = <<>>
    /\ fault = "none"
    /\ exit_status = -1
    /\ listened = FALSE
    /\ interrupted_at = "none"
    /\ wpc = [w \in Workers |-> "off"]
    /\ wtime = [w \in Workers |-> 0]

(* ----------------------------- main: start ----------------------------- *)
\* service_ready = test_whatsapp_service(); if not service_ready: prompt
HealthCheck ==
    /\ pc = "health"
    /\ \E h \in HealthResults :
          /\ service_ready' = test_whatsapp_service(h)
          /\ health_log' = HealthLog(h)
          /\ pc' = IF test_whatsapp_service(h) THEN "init_engine" ELSE "prompt"
    /\ UNCHANGED <<variant, COOLDOWN_SECONDS, WAKE_WORDS, clock,
                   last_detection_time, current_time, keyword_index, frame,
                   detected_words, outcome, interrupted, alert_calls,
                   last_before, response, sent_log, read_result, shutdown,
                   workers>>

\* input(): Enter continues, Ctrl+C returns from main
Prompt ==
    /\ pc = "prompt"
    /\ \E key \in {"Enter", "KeyboardInterrupt"} :
          IF key = "Enter"
          THEN pc' = "init_engine" /\ UNCHANGED <<fault, exit_status>>
          ELSE pc' = "done" /\ fault' = "PromptInterrupt" /\ exit_status' = 0
    /\ UNCHANGED <<variant, COOLDOWN_SECONDS, WAKE_WORDS, clock,
                   last_detection_time, current_time, service_ready,
                   keyword_index, frame, detected_words, outcome, interrupted,
                   alert_calls, last_before, response, sent_log, health_log,
                   read_result, acquire_log, release_log, listened,
                   interrupted_at, workers>>

\* pvporcupine.create(...) / Model(...), KaldiRecognizer(...): on an
\* exception main logs and returns
InitEngine ==
    /\ pc = "init_engine"
    /\ \E ok \in BOOLEAN :
          IF ok
          THEN /\ pc' = "open_audio"
               /\ acquire_log' = acquire_log \o EngineResources(variant)
               /\ UNCHANGED <<fault, exit_status>>
          ELSE /\ pc' = "done"
               /\ fault' = "EngineInit"
               /\ exit_status' = 0
               /\ UNCHANGED acquire_log
    /\ health_log' = NoHealthLog
    /\ UNCHANGED <<variant, COOLDOWN_SECONDS, WAKE_WORDS, clock,
                   last_detection_time, current_time, service_ready,
                   keyword_index, frame, detected_words, outcome, interrupted,
                   alert_calls, last_before, response, sent_log, read_result,
                   release_log, listened, interrupted_at, workers>>

\* pa = pyaudio.PyAudio() outside any try, then pa.open(...) and the
\* device-info lookup inside one: on an exception there main logs, releases
\* and returns; an exception of pyaudio.PyAudio() leaves main uncaught
OpenAudio ==
    /\ pc = "open_audio"
    /\ \E r \in OpenResults :
          CASE r = "PyAudioError" ->
                 /\ pc' = "done"
                 /\ fault' = "PyAudioInit"
                 /\ exit_status' = 1
                 /\ UNCHANGED <<acquire_log, release_log, listened>>
            [] r = "OpenError" ->
                 /\ pc' = "done"
                 /\ fault' = "AudioOpen"
                 /\ exit_status' = 0
                 /\ acquire_log' = Append(acquire_log, "pa")
                 /\ release_log' = release_log \o OpenFailureReleases(variant)
                 /\ UNCHANGED listened
            [] r = "DeviceInfoError" ->
                 /\ pc' = "done"
                 /\ fault' = "AudioOpen"
                 /\ exit_status' = 0
                 /\ acquire_log' = acquire_log \o <<"pa", "stream">>
                 /\ release_log' = release_log \o OpenFailureReleases(variant)
                 /\ UNCHANGED listened
            [] r = "ok" ->
                 /\ pc' = "read"
                 /\ acquire_log' = acquire_log \o <<"pa", "stream">>
                 /\ listened' = TRUE
                 /\ UNCHANGED <<fault, exit_status, release_log>>
    /\ UNCHANGED <<variant, COOLDOWN_SECONDS, WAKE_WORDS, clock,
                   last_detection_time, current_time, service_ready,
                   keyword_index, frame, detected_words, outcome, interrupted,
                   alert_calls, last_before, response, sent_log, health_log,
                   read_result, interrupted_at, workers>>

(* ----------------------------- main: loop ------------------------------ *)
\* stream.read(...) followed by the engine call on the frame; an exception
\* of either is not caught by the loop's except KeyboardInterrupt: the
\* finally block runs and the exception leaves main
ReadFrame ==
    /\ pc = "read"
    /\ \E r \in ReadResults :
          /\ read_result' = r
          /\ IF ReadRaises(r) \/ r = "engine_error"
             THEN /\ pc' = "cleanup"
                  /\ fault' = IF r = "engine_error" THEN "EngineError"
                                                    ELSE "ReadError"
                  /\ UNCHANGED <<keyword_index, frame>>
             ELSE /\ pc' = "process"
                  /\ IF variant = "porcupine"
                     THEN keyword_index' \in KeywordIndices /\ frame' = frame
                     ELSE keyword_index' = keyword_index /\ frame' \in Frames
                  /\ UNCHANGED fault
    /\ UNCHANGED <<variant, COOLDOWN_SECONDS, WAKE_WORDS, clock,
                   last_detection_time, current_time, service_ready,
                   detected_words, outcome, interrupted, alert_calls,
                   last_before, response, sent_log, health_log, acquire_log,
                   release_log, exit_status, listened, interrupted_at,
                   workers>>

\* `while True:` the iteration is over, its locals and what it logged are
\* behind; main goes on to the next stream.read
LoopBack ==
    /\ pc = "loop"
    /\ pc' = "read"
    /\ keyword_index' = -1
    /\ frame' = NoFrame
    /\ detected_words' = <<>>
    /\ outcome' = NoOutcome
    /\ alert_calls' = 0
    /\ current_time' = 0
    /\ last_before' = 0
    /\ response' = NoResponse
    /\ UNCHANGED <<variant, COOLDOWN_SECONDS, WAKE_WORDS, clock,
                   last_detection_time, service_ready, interrupted, sent_log,
                   health_log, read_result, shutdown, workers>>

\* Porcupine: if keyword_index >= 0: log; send_alert()
ProcessPorcupine ==
    /\ pc = "process"
    /\ variant = "porcupine"
    /\ IF WakeWordDetected(keyword_index)
       THEN pc' = "send_alert" /\ alert_calls' = alert_calls + 1
       ELSE pc' = "loop" /\ alert_calls' = alert_calls
    /\ read_result' = "none"
    /\ UNCHANGED <<variant, COOLDOWN_SECONDS, WAKE_WORDS, clock,
                   last_detection_time, current_time, service_ready,
                   keyword_index, frame, detected_words, outcome, interrupted,
                   last_before, response, sent_log, health_log, shutdown,
                   workers>>

\* Vosk: if AcceptWaveform: text = ...; if text: detected_words = ...;
\* if detected_words: log detected_words[0]; send_alert()
ProcessVosk ==
    /\ pc = "process"
    /\ variant = "vosk"
    /\ IF Finalized(frame) /\ ResultText(frame) # <<>>
       THEN /\ detected_words' = DetectedWords(ResultText(frame))
            /\ IF DetectedWords(ResultText(frame)) # <<>>
               THEN pc' = "send_alert" /\ alert_calls' = alert_calls + 1
               ELSE pc' = "loop" /\ alert_calls' = alert_calls
       ELSE /\ detected_words' = detected_words
            /\ pc' = "loop"
            /\ alert_calls' = alert_calls
    /\ read_result' = "none"
    /\ UNCHANGED <<variant, COOLDOWN_SECONDS, WAKE_WORDS, clock,
                   last_detection_time, current_time, service_ready,
                   keyword_index, frame, outcome, interrupted, last_before,
                   response, sent_log, health_log, shutdown, workers>>

\* send_alert up to the cooldown check: read the clock, skip or go on to post
\* (main does not read the frame's text again once send_alert is entered)
SendAlertGate ==
    /\ pc = "send_alert"
    /\ current_time' = clock
    /\ last_before' = last_detection_time
    /\ frame' = NoFrame
    /\ IF CooldownActive(clock, last_detection_time)
       THEN /\ outcome' = SkipOutcome(clock, last_detection_time)
            /\ pc' = "loop"
       ELSE /\ outcome' = outcome
            /\ pc' = "post"
    /\ UNCHANGED <<variant, COOLDOWN_SECONDS, WAKE_WORDS, clock,
                   last_detection_time, service_ready, keyword_index,
                   detected_words, interrupted, alert_calls, response,
                   sent_log, health_log, read_result, shutdown, workers>>

\* requests.post(...) comes back: a response, a ConnectionError or another
\* exception; the rest of send_alert
SendAlertPost ==
    /\ pc = "post"
    /\ \E res \in PostResults :
          /\ outcome' = PostOutcome(res)
          /\ last_detection_time' =
                 RecordedTime(res, current_time, last_detection_time)
          /\ sent_log' = IF PostOutcome(res).kind = "Sent"
                         THEN Remember(sent_log, current_time)
                         ELSE sent_log
          /\ response' = res
          /\ pc' = AfterPost(res)
    /\ UNCHANGED <<variant, COOLDOWN_SECONDS, WAKE_WORDS, clock, current_time,
                   service_ready, keyword_index, frame, detected_words,
                   interrupted, alert_calls, last_before, health_log,
                   read_result, shutdown, workers>>

\* time passes while main is blocked in stream.read or in requests.post
\* (the only clock read is the one at the top of send_alert)
Tick ==
    /\ pc \in {"read", "post"}
    /\ clock < MaxClock
    /\ clock' = clock + 1
    /\ UNCHANGED <<variant, COOLDOWN_SECONDS, WAKE_WORDS, last_detection_time,
                   current_time, service_ready, pc, keyword_index, frame,
                   detected_words, outcome, interrupted, alert_calls,
                   last_before, response, sent_log, health_log, read_result,
                   shutdown, workers>>

\* Ctrl+C anywhere inside the try of the loop: the stack unwinds to main's
\* except KeyboardInterrupt; the loop's locals are dead from here on and an
\* alert in flight logs no outcome
KeyboardInterrupt ==
    /\ pc \in {"read", "process", "send_alert", "post"}
    /\ interrupted' = TRUE
    /\ interrupted_at' = pc
    /\ fault' = "KeyboardInterrupt"
    /\ pc' = "cleanup"
    /\ current_time' = 0
    /\ keyword_index' = -1
    /\ frame' = NoFrame
    /\ detected_words' = <<>>
    /\ alert_calls' = 0
    /\ last_before' = 0
    /\ outcome' = NoOutcome
    /\ response' = NoResponse
    /\ read_result' = "none"
    /\ UNCHANGED <<variant, COOLDOWN_SECONDS, WAKE_WORDS, clock,
                   last_detection_time, service_ready, sent_log, health_log,
                   acquire_log, release_log, exit_status, listened, workers>>

\* finally: stop and close the stream, terminate PyAudio (delete porcupine),
\* each a call that can raise and so skip the calls after it; main then
\* returns, or the exception that is under way leaves it
Cleanup ==
    /\ pc = "cleanup"
    /\ pc' = "done"
    /\ \E fail_at \in 0..Len(CleanupSteps(variant)) :
          /\ release_log' = release_log \o CleanupReleases(variant, fail_at)
          /\ exit_status' =
                 IF fail_at # 0 \/ fault \in {"ReadError", "EngineError"}
                 THEN 1 ELSE 0
    /\ UNCHANGED <<variant, COOLDOWN_SECONDS, WAKE_WORDS, clock,
                   last_detection_time, current_time, service_ready,
                   keyword_index, frame, detected_words, outcome, interrupted,
                   alert_calls, last_before, response, sent_log, health_log,
                   read_result, acquire_log, fault, listened, interrupted_at,
                   workers>>

Next ==
    \/ HealthCheck
    \/ Prompt
    \/ InitEngine
    \/ OpenAudio
    \/ ReadFrame
    \/ LoopBack
    \/ ProcessPorcupine
    \/ ProcessVosk
    \/ SendAlertGate
    \/ SendAlertPost
    \/ Tick
    \/ KeyboardInterrupt
    \/ Cleanup

Spec == Init /\ [][Next]_vars

\* the code lets send_alert and requests.post run on, and requests.post is
\* bounded by timeout=10: an alert that has begun gets its steps
LiveSpec ==
    /\ Spec
    /\ WF_vars(SendAlertGate)
    /\ WF_vars(SendAlertPost)
    /\ WF_vars(LoopBack)

(* --------------------- a wall clock that is set back -------------------- *)
\* time.time() is the wall clock: between two reads it can be set back
\* (NTP step, manual change) while main is blocked
ClockStepBack ==
    /\ pc \in {"read", "post"}
    /\ clock > 0
    /\ \E t \in 0..(clock - 1) : clock' = t
    /\ UNCHANGED <<variant, COOLDOWN_SECONDS, WAKE_WORDS, last_detection_time,
                   current_time, service_ready, pc, keyword_index, frame,
                   detected_words, outcome, interrupted, alert_calls,
                   last_before, response, sent_log, health_log, read_result,
                   shutdown, workers>>

NextWall ==
    \/ Next
    \/ ClockStepBack

WallSpec == Init /\ [][NextWall]_vars

(* ------------------ send_alert called by two workers ------------------- *)
\* two threads of one process each call send_alert when they detect the wake
\* word; last_detection_time and COOLDOWN_SECONDS are the module's globals
InitWorkers ==
    /\ variant \in {"porcupine", "vosk"}
    /\ COOLDOWN_SECONDS \in CooldownChoices
    /\ WAKE_WORDS = <<>>
    /\ clock = 0
    /\ last_detection_time = 0
    /\ current_time = 0
    /\ service_ready = FALSE
    /\ pc = "workers"
    /\ keyword_index = -1
    /\ frame = NoFrame
    /\ detected_words = <<>>
    /\ outcome = NoOutcome
    /\ interrupted = FALSE
    /\ alert_calls = 0
    /\ last_before = 0
    /\ response = NoResponse
    /\ sent_log = <<>>
    /\ health_log = NoHealthLog
    /\ read_result = "none"
    /\ acquire_log = <<>>
    /\ release_log = <<>>
    /\ fault = "none"
    /\ exit_status = -1
    /\ listened = FALSE
    /\ interrupted_at = "none"
    /\ wpc = [w \in Workers |-> "idle"]
    /\ wtime = [w \in Workers |-> 0]

\* worker w enters send_alert: reads the clock and the global, skips or goes
\* on to post; nothing is held between this test and the assignment at the
\* end of send_alert
WorkerGate(w) ==
    /\ pc = "workers"
    /\ wpc[w] = "idle"
    /\ wtime' = [wtime EXCEPT ![w] = clock]
    /\ IF CooldownActive(clock, last_detection_time)
       THEN /\ outcome' = SkipOutcome(clock, last_detection_time)
            /\ wpc' = wpc
       ELSE /\ outcome' = outcome
            /\ wpc' = [wpc EXCEPT ![w] = "post"]
    /\ UNCHANGED <<variant, COOLDOWN_SECONDS, WAKE_WORDS, clock,
                   last_detection_time, current_time, service_ready, pc,
                   keyword_index, frame, detected_words, interrupted,
                   alert_calls, last_before, response, sent_log, health_log,
                   read_result, shutdown>>

\* worker w's requests.post comes back; the rest of its send_alert
WorkerPost(w) ==
    /\ pc = "workers"
    /\ wpc[w] = "post"
    /\ \E res \in PostResults :
          /\ outcome' = PostOutcome(res)
          /\ last_detection_time' =
                 RecordedTime(res, wtime[w], last_detection_time)
          /\ sent_log' = IF PostOutcome(res).kind = "Sent"
                         THEN Remember(sent_log, wtime[w])
                         ELSE sent_log
    /\ wpc' = [wpc EXCEPT ![w] = "idle"]
    /\ UNCHANGED <<variant, COOLDOWN_SECONDS, WAKE_WORDS, clock, current_time,
                   service_ready, pc, keyword_index, frame, detected_words,
                   interrupted, alert_calls, last_before, response,
                   health_log, read_result, shutdown, wtime>>

\* time passes while the workers listen or wait for their requests.post
TickWorkers ==
    /\ pc = "workers"
    /\ clock < MaxClock
    /\ clock' = clock + 1
    /\ UNCHANGED <<variant, COOLDOWN_SECONDS, WAKE_WORDS, last_detection_time,
                   current_time, service_ready, pc, keyword_index, frame,
                   detected_words, outcome, interrupted, alert_calls,
                   last_before, response, sent_log, health_log, read_result,
                   shutdown, workers>>

NextWorkers ==
    \/ \E w \in Workers : WorkerGate(w)
    \/ \E w \in Workers : WorkerPost(w)
    \/ TickWorkers

WorkersSpec == InitWorkers /\ [][NextWorkers]_vars

(* ======================= properties of the code ======================== *)
Window == COOLDOWN_SECONDS * TicksPerSecond

Failures == {"FailedHttpStatus", "FailedConnection", "FailedOther"}

\* the latest send_alert call has returned to the loop
CallReturned == pc = "loop" /\ alert_calls = 1

\* C1: with a clock that never steps back, any two Sent outcomes have
\* detection timestamps at least COOLDOWN_SECONDS apart, whatever the alert
\* service answered in between.
C1_SentAtLeastCooldownApart ==
    \A i, j \in 1..Len(sent_log) :
        i < j => sent_log[j] - sent_log[i] >= Window

C1_Witness ==
    /\ COOLDOWN_SECONDS >= 1
    /\ Len(sent_log) >= 2
    /\ sent_log[2] - sent_log[1] = Window

\* C2: a send_alert call that ends in a cooldown skip or in any failure
\* leaves last_detection_time as it was when the call began.
C2_FailureKeepsTimestamp ==
    (CallReturned /\ outcome.kind \in Failures \cup {"SkippedCooldown"})
        => last_detection_time = last_before

C2_Witness ==
    /\ CallReturned
    /\ outcome.kind = "FailedHttpStatus"
    /\ sent_log # <<>>
    /\ last_detection_time = sent_log[Len(sent_log)]
    /\ clock - last_detection_time >= Window

\* C3: as long as no Sent outcome has occurred the gate lets every detection
\* through, at every clock value >= 0 and for every COOLDOWN_SECONDS.
C3_FirstDetectionAllowed ==
    sent_log = <<>> => outcome.kind # "SkippedCooldown"

TruncatedSeconds(e, d) ==
    IF d >= 0
    THEN e * TicksPerSecond <= d /\ d < (e + 1) * TicksPerSecond
    ELSE (e - 1) * TicksPerSecond < d /\ d <= e * TicksPerSecond

C5_OutcomeByTransport ==
    /\ response.type = "response" /\ response.status_code = 200
           => outcome.kind = "Sent" /\ outcome.ret
    /\ response.type = "response" /\ response.status_code # 200
           => /\ outcome.kind = "FailedHttpStatus"
              /\ outcome.code = response.status_code
              /\ outcome.body = response.text
    /\ response.type = "ConnectionError" => outcome.kind = "FailedConnection"
    /\ response.type = "Exception" => outcome.kind = "FailedOther"
    /\ response.type = "none" => outcome.kind \in {"None", "SkippedCooldown"}

\* C6: from Alerting (inside send_alert) the loop goes back to Listening
\* whatever the outcome, unless a KeyboardInterrupt arrives: no step leaves
\* Alerting for anywhere else, and Alerting is always left.
C6_AlertingReturnsToListening ==
    /\ [][(pc \in {"send_alert", "post", "loop"} /\ ~interrupted')
              => pc' \in {"send_alert", "post", "loop", "read"}]_vars
    /\ (pc \in {"send_alert", "post"}) ~> (pc = "read" \/ interrupted)

C6_Witness ==
    /\ CallReturned
    /\ outcome.kind = "FailedOther"
    /\ ~interrupted

\* C7: the health check is advisory: with service_ready false and the
\* operator going on, a detection that passes the cooldown test still issues
\* the POST.
C7_HealthCheckAdvisory ==
    (~service_ready /\ CallReturned
         /\ current_time - last_before >= Window)
        => response # NoResponse

C7_Witness ==
    /\ ~service_ready
    /\ CallReturned
    /\ outcome.kind = "Sent"

\* t is some beginning of t, then w, then some end of t
OccursIn(w, t) ==
    \E i \in 0..Len(t), j \in 1..(Len(t) + 1) :
        SubSeq(t, 1, i) \o w \o SubSeq(t, j, Len(t)) = t

\* t with every upper-case letter replaced by its lower-case letter
Lowered(t) ==
    [i \in 1..Len(t) |->
        IF t[i] = "A" THEN "a" ELSE IF t[i] = "B" THEN "b" ELSE t[i]]

\* C8: Vosk: for a finalized text a detection is emitted iff the text is not
\* empty and some wake word occurs in the lowercased text, and the word
\* reported is the first such word of WAKE_WORDS.
C8_SubstringFirstMatch ==
    (variant = "vosk" /\ pc \in {"send_alert", "loop"} /\ frame.accept)
        => LET t == Lowered(frame.text)
               hits == {i \in 1..Len(WAKE_WORDS) : OccursIn(WAKE_WORDS[i], t)}
               detected == pc = "send_alert" /\ alert_calls = 1
           IN /\ detected <=> (t # <<>> /\ hits # {})
              /\ detected =>
                     \E i \in hits : /\ \A k \in hits : i <= k
                                     /\ detected_words[1] = WAKE_WORDS[i]
              /\ ~detected => pc = "loop" /\ alert_calls = 0

C8_Witness ==
    /\ variant = "vosk"
    /\ pc = "send_alert"
    /\ frame.accept
    /\ frame.text = <<"A", "b">>
    /\ WAKE_WORDS = << <<"a", "b">>, <<"a">> >>
    /\ detected_words[1] = <<"a", "b">>

\* C9: Vosk: a frame without an utterance boundary produces no detection and
\* no send_alert call, whatever the interim text holds.
C9_PartialNeverAlerts ==
    (variant = "vosk" /\ pc \in {"send_alert", "loop"} /\ frame # NoFrame
         /\ ~frame.accept)
        => /\ alert_calls = 0
           /\ detected_words = <<>>
           /\ pc = "loop"
           /\ outcome = NoOutcome

C9_Witness ==
    /\ variant = "vosk"
    /\ pc = "loop"
    /\ ~frame.accept
    /\ frame.text = <<"A">>
    /\ WAKE_WORDS = << <<"a">> >>
    /\ alert_calls = 0

\* C10: Porcupine: a frame whose keyword_index is >= 0 makes exactly one
\* send_alert call, a frame whose keyword_index is < 0 makes none.
C10_OneAlertPerMatch ==
    (variant = "porcupine" /\ pc \in {"send_alert", "post", "loop"})
        => alert_calls = IF keyword_index >= 0 THEN 1 ELSE 0

C10_Witness ==
    /\ variant = "porcupine"
    /\ CallReturned
    /\ keyword_index = 0
    /\ outcome.kind # "None"

(* --------------------- start, shutdown, resources ---------------------- *)
\* the elements of a sequence
Range(s) == {s[i] : i \in 1..Len(s)}

\* where resource r stands in the order of acquisition
AcquiredAt(r) == CHOOSE k \in 1..Len(acquire_log) : acquire_log[k] = r

\* C11: when the engine initialization or the audio opening fails, main ends
\* without having entered the loop and with an exit status other than the 0
\* of a shutdown by Ctrl+C.
C11_InitFailureHasFatalStatus ==
    (pc = "done" /\ fault \in {"EngineInit", "AudioOpen"})
        => /\ ~listened
           /\ exit_status # 0

\* C12: when main has ended, every resource it acquired has been released,
\* whichever way it ended.
C12_AllAcquiredReleased ==
    pc = "done" => Range(acquire_log) \subseteq Range(release_log)

\* C13: the resources main has released were released in the reverse of the
\* order in which it acquired them.
C13_ReleasedInReverseOrder ==
    \A i, j \in 1..Len(release_log) :
        i < j => AcquiredAt(release_log[i]) > AcquiredAt(release_log[j])

\* C14: a KeyboardInterrupt never ends send_alert while its requests.post is
\* in flight: the call's outcome is recorded before main shuts down.
C14_InterruptNeverAbortsAlert ==
    interrupted => interrupted_at # "post"

\* C15: a stream.read that met an input overflow gives its frame to the loop
\* like any other: main goes on to process it, and is not on its way out.
C15_OverflowStaysInLoop ==
    read_result = "overflow"
        => /\ pc = "process"
           /\ fault = "none"
           /\ exit_status = -1

C15_Witness ==
    /\ read_result = "overflow"
    /\ pc = "process"
    /\ listened

\* C16: once the loop has been entered, no exception of stream.read or of the
\* engine call ends main: the loop is left by a KeyboardInterrupt only.
C16_LoopErrorsNeverEndRun ==
    listened => fault \in {"none", "KeyboardInterrupt"}

(* ----------------------- cooldown, further claims ---------------------- *)
\* a request has been put on the wire for the current detection
PostIssued == pc = "post" \/ response # NoResponse

\* C17: no step lowers last_detection_time, whichever way the wall clock
\* moves between the clock reads of send_alert.
C17_LastDetectionNeverDecreases ==
    [][last_detection_time' >= last_detection_time]_vars

\* a detection met a clock that had been set back behind the last Sent, and
\* the call returned
C17_Witness ==
    /\ CallReturned
    /\ sent_log # <<>>
    /\ current_time < last_before
    /\ last_detection_time = last_before

\* C18: a request is on the wire only for a detection the cooldown test let
\* through, at least COOLDOWN_SECONDS after the recorded time; a detection
\* inside the cooldown returns with no request made.
C18_PostOnlyAfterGateAllows ==
    /\ PostIssued => /\ alert_calls = 1
                     /\ current_time - last_before >= Window
    /\ (CallReturned /\ current_time - last_before < Window)
           => /\ ~PostIssued
              /\ outcome.kind = "SkippedCooldown"

\* a detection inside the cooldown after a Sent, denied without a request
C18_Witness ==
    /\ CallReturned
    /\ sent_log # <<>>
    /\ current_time - last_before < Window
    /\ current_time > last_before
    /\ ~PostIssued

\* C19: with two workers calling send_alert on the shared
\* last_detection_time, any two Sent outcomes are still at least
\* COOLDOWN_SECONDS apart.
C19_WorkersSentCooldownApart ==
    \A i, j \in 1..Len(sent_log) :
        i # j => \/ sent_log[j] - sent_log[i] >= Window
                 \/ sent_log[i] - sent_log[j] >= Window

(* ---------------------------- health check ----------------------------- *)
\* C20: test_whatsapp_service returns for every result of GET /health; it
\* returns True and logs "connected and ready" only for a parsed body with
\* whatsappConnected true, logs "running but not connected" exactly for a
\* parsed body with the field false or absent, and for a connection error, a
\* timeout or an unparsable body returns False with one of its two
\* could-not-reach lines.
C20_HealthCheckClassifies ==
    health_log # NoHealthLog
        => /\ pc \in {"prompt", "init_engine", "done"}
           /\ fault \in {"none", "PromptInterrupt"}
           /\ service_ready <=> health_log.result = "connected"
           /\ health_log.line = "connected and ready"
                  <=> health_log.result = "connected"
           /\ health_log.line = "running but not connected"
                  <=> health_log.result \in {"not_connected", "field_absent"}
           /\ health_log.result \in {"ConnectionError", "Timeout", "bad_json"}
                  => /\ health_log.line \in {"not running", "could not check"}
                     /\ ~service_ready

C20_Witness ==
    /\ pc = "prompt"
    /\ health_log.result = "bad_json"
    /\ health_log.line = "could not check"
    /\ ~service_ready

(* ------------------------ the recorded timestamp ----------------------- *)
\* C21: when send_alert has returned Sent, last_detection_time is the clock
\* value the call read before its cooldown test, however long requests.post
\* took; the cooldown runs from the detection, not from the answer.
C21_SentRecordsGateTime ==
    (CallReturned /\ outcome.kind = "Sent")
        => /\ last_detection_time = current_time
           /\ sent_log[Len(sent_log)] = current_time
           /\ current_time - last_before >= Window

\* a Sent outcome whose requests.post took time: the clock has moved on since
\* the call read it
C21_Witness ==
    /\ CallReturned
    /\ outcome.kind = "Sent"
    /\ clock > current_time
    /\ last_detection_time = current_time
    /\ last_detection_time # last_before

====
